---- MODULE Spec2Model ----
(***************************************************************************)
(* A model of the AM43 blind-motor engine (class AM43Device): the frame    *)
(* codec, the confirmed-connect-with-retry lifecycle, service discovery,   *)
(* the command pipeline and the motion state tracker.                      *)
(*                                                                         *)
(* JavaScript runs one macrotask (a timer, a transport signal, an API      *)
(* call) to completion together with the promise continuations it makes    *)
(* runnable, so each action below is one macrotask with its microtasks.    *)
(*                                                                         *)
(* The specifications share the actions:                                   *)
(*   Spec        the connection lifecycle and the command pipeline,        *)
(*   SpecMotion  the motion state tracker on an established link,          *)
(*   SpecCodec   the frame encoder as a pure function of its inputs,       *)
(*   SpecHost    the host layer's inactivity policy,                       *)
(*   SpecPersist the motion state across disconnects and reconnects,       *)
(*   SpecTrack   a tracked move with a motor that answers every request,   *)
(*   SpecDecode  the data listener on whole and truncated frames,          *)
(*   SpecEvents  the operations and frames with a listener of the events,  *)
(*   SpecLoops   tracked moves commanded one after another,                *)
(*   SpecConvention  the host layer's position reports.                    *)
(***************************************************************************)
EXTENDS Integers, Sequences, FiniteSets, TLC

(***************************************************************************)
(* Bounds of the model.                                                    *)
(***************************************************************************)
NumCallers == 2
MaxSeqs == 2
MaxPayload == 2
MaxTrack == 1
MaxLoops == 2
NumSamples == 2
MaxTimeout == 1
MaxReplies == 2

(***************************************************************************)
(* Program constants.                                                      *)
(***************************************************************************)
\* retryConnecting(wait = 250, maxAttempts = 5)
maxAttempts == 5
\* this.targetPosition = null, as a number
NoTarget == -1
\* lastFewPositions.length = Math.min(5, ...), hasStopped(): length < 5
BufferCap == 5
\* direction: 0 Down/Decreasing, 1 Up/Increasing, 2 Stopped
Decreasing == 0
Increasing == 1
Stopped == 2
\* openAsync: targetPosition = 0; closeAsync: targetPosition = 100
OpenTarget == 0
CloseTarget == 100
\* new Uint8Array(data.length + 8)
FrameOverhead == 8
\* dataArray[i] beyond the end of the frame is undefined, and
\* parseInt(undefined) is NaN; as numbers that are below every byte, so
\* that `target < NaN` is false as in JavaScript
NaN == -2
Undefined == -3

\* ./variables/device is not among the source files: the wire constants are
\* taken from the protocol description (a 5-byte prefix, one-byte ids).
AM43_COMMAND_PREFIX == <<0, 255, 0, 0, 154>>
AM43_COMMAND_ID_SET_MOVE == 10
AM43_COMMAND_ID_SET_POSITION == 13
AM43_COMMAND_ID_GET_POSITION == 167
AM43_COMMAND_ID_GET_LIGHTSENSOR == 170
AM43_COMMAND_ID_GET_BATTERYSTATUS == 162
AM43_NOTIFY_POSITION == 161
AM43_MOVE_OPEN == 221
AM43_MOVE_CLOSE == 238
AM43_MOVE_STOP == 204

Null == "null"

\* accessory.lastHAPInteraction = null (AM43Platform.js 197), as a number
NoInteraction == -1
\* no event of that name was emitted yet (EventEmitter keeps no payload)
NoEvent == -4
NoEvents == [direction |-> NoEvent, targetPosition |-> NoEvent]
\* the characteristics before the host layer wrote them, and no value pushed
\* by the position listener or returned by the get handler in the last step
NoValues == [PositionState |-> NoEvent, CurrentPosition |-> NoEvent,
             TargetPosition |-> NoEvent, pushed |-> NoEvent,
             reported |-> NoEvent]

VARIABLES
    \* ---- AM43Device fields
    isConnected,
    blindsControlCharacteristic,
    connectingPromise,
    discoveringPromise,
    position,
    targetPosition,
    direction,
    batteryPercentage,
    lastFewPositions,
    \* ---- pending asynchronous work
    seqs,          \* the retryConnecting() runs and the closure of their attempt
    callers,       \* the API calls and the tracking loops in flight
    \* ---- the peripheral (transport)
    link,
    discReq,
    discoveries,   \* the discovery requests the transport has not settled
    replies,       \* the position requests the motor has not answered yet
    \* ---- the frame encoder's inputs and output
    commandID,
    data,
    bufferArray,
    \* ---- the host layer (AM43Platform.js)
    hapInteractionTimeout,   \* the configured timeout, in seconds
    lastHAPInteraction,      \* seconds since the last HAP interaction
    checkTimer,              \* seconds left on the set handler's timer, 0: none
    \* ---- observation
    emitted,       \* the events emitted by the last step, in order
    lastAct,       \* what the last step was
    lastEvent,     \* a listener's record of the latest payload of each event
    hap,           \* the values the host layer gave to HomeKit
    \* ---- history
    hist

vars == <<isConnected, blindsControlCharacteristic, connectingPromise,
          discoveringPromise, position, targetPosition, direction,
          batteryPercentage, lastFewPositions, seqs, callers, link, discReq,
          discoveries, replies, commandID, data, bufferArray,
          hapInteractionTimeout,
          lastHAPInteraction, checkTimer, emitted, lastAct, lastEvent, hap,
          hist>>

deviceVars == <<isConnected, blindsControlCharacteristic, connectingPromise,
                discoveringPromise>>
motionVars == <<position, targetPosition, direction, batteryPercentage,
                lastFewPositions>>
codecVars == <<commandID, data, bufferArray>>
hostVars == <<hapInteractionTimeout, lastHAPInteraction, checkTimer>>
\* what surrounds the device: the host layer and the motor
\* and the listeners of its events
envVars == <<hostVars, replies, lastEvent, hap>>

(***************************************************************************)
(* Frame codec                                                             *)
(***************************************************************************)
Byte == 0..255

\* Storing a number into a Uint8Array keeps its low 8 bits.
ToUint8(n) == n % 256

RECURSIVE Xor(_, _)
\* a ^ b on non-negative integers, bit by bit
Xor(a, b) ==
    IF a = 0 THEN b
    ELSE IF b = 0 THEN a
    ELSE (2 * Xor(a \div 2, b \div 2)) + (((a % 2) + (b % 2)) % 2)

RECURSIVE ChecksumLoop(_, _, _)
\* for (let i = 0; i < bufferArray.length - 1; i++) checksum ^= bufferArray[i]
\* (sequences are 1-based: index i of the code is element i + 1)
ChecksumLoop(buf, i, checksum) ==
    IF i < Len(buf) - 1
    THEN ChecksumLoop(buf, i + 1, Xor(checksum, buf[i + 1]))
    ELSE checksum

\* the checksum without its final inversion
ChecksumNotInverted(buf) == ChecksumLoop(buf, 0, 0)

calculateCommandChecksum(buf) == Xor(ChecksumLoop(buf, 0, 0), 255)

\* The buffer sendCommandAsync builds: a zero-filled Uint8Array of
\* data.length + 8 bytes, the prefix copied in, the command id at 5, the
\* payload length at 6, the payload from 7, the checksum after the payload.
Zeroed(n) == [i \in 1..n |-> 0]

WithPrefix(buf) ==
    [i \in 1..Len(buf) |->
        IF i <= Len(AM43_COMMAND_PREFIX) THEN ToUint8(AM43_COMMAND_PREFIX[i])
        ELSE buf[i]]

WithPayload(buf, payload) ==
    [i \in 1..Len(buf) |->
        IF i >= 8 /\ i <= 7 + Len(payload) THEN ToUint8(payload[i - 7])
        ELSE buf[i]]

BuildFrame(cmd, payload) ==
    LET b0 == Zeroed(Len(payload) + FrameOverhead)
        b1 == WithPrefix(b0)
        b2 == [b1 EXCEPT ![6] = ToUint8(cmd)]
        b3 == [b2 EXCEPT ![7] = ToUint8(Len(payload))]
        b4 == WithPayload(b3, payload)
    IN  [b4 EXCEPT ![8 + Len(payload)] = calculateCommandChecksum(b4)]

(***************************************************************************)
(* API calls in flight.  pc is where the call is suspended:                *)
(*   idle           not in a call                                          *)
(*   awaitConnect   sendCommandAsync: await this.reconnect()               *)
(*   sleep250       sendCommandAsync: await sleep(250) before discovery    *)
(*   awaitDiscover  sendCommandAsync: await this.serviceDiscoveryAsync()   *)
(*   writing        sendCommandAsync: await ...writeAsync(buffer, true)    *)
(*   disconnecting  disconnectAsync: await peripheral.disconnectAsync()    *)
(***************************************************************************)
\* (a tracking loop, trackCurrentPosition, is a process of its own:)
(*   timer          trackCurrentPosition: the 1 s timer is armed            *)
Callers == 1..NumCallers
\* the tracking loops that can exist side by side
Trackers == (NumCallers + 1)..(NumCallers + MaxLoops)
Procs == Callers \cup Trackers
SeqIds == 1..MaxSeqs

IdleCaller ==
    [pc |-> "idle", op |-> "none", arg |-> 0, track |-> FALSE,
     \* the retryConnecting run awaited by the call's reconnect()
     awaits |-> 0,
     \* history: that reconnect()'s outcome, the run started just before
     \* the call in the same turn, and the Disconnect() calls the caller
     \* has completed in a row
     connResult |-> "none", sameTurnAs |-> 0, streak |-> 0,
     \* history: the transport writes the call has issued
     writes |-> 0]

(***************************************************************************)
(* retryConnecting() runs.  A run holds the loop variable and the closure  *)
(* of the attempt it is awaiting.  An attempt that has been settled leaves *)
(* listeners and timers behind, but they only set the closure's own flags  *)
(* and settle a settled promise again (lines 215, 222, 231), so the        *)
(* closure is dropped when the loop moves on.                              *)
(***************************************************************************)
FreeSeq ==
    [state |-> "free", attempt |-> 1, connects |-> 0,
     hasResolved |-> FALSE, hasDisconnectedAlready |-> FALSE,
     connectListener |-> FALSE, disconnectListener |-> FALSE,
     confirmTimer |-> FALSE, timeoutTimer |-> FALSE,
     timeoutAwaiting |-> FALSE,
     \* history: the attempt saw a connect signal; the last rejection
     \* followed one
     sawConnect |-> FALSE, falsePositive |-> FALSE]

Pending(sq) == sq.state \in {"attempting", "sleeping"}

\* peripheral.connectAsync(): a link that is down starts connecting
connectAsync(l) == IF l = "disconnected" THEN "connecting" ELSE l

\* attemptConnection(): both once-listeners registered, connectAsync()
\* called, the 5 s timer armed
attemptConnection(sq) ==
    [sq EXCEPT !.state = "attempting",
               !.connects = sq.connects + 1,
               !.hasResolved = FALSE, !.hasDisconnectedAlready = FALSE,
               !.connectListener = TRUE, !.disconnectListener = TRUE,
               !.confirmTimer = FALSE, !.timeoutTimer = TRUE,
               !.timeoutAwaiting = FALSE, !.sawConnect = FALSE]

\* the catch block of retryConnecting: attempt += 1; await sleep(wait)
RetryCatch(sq) ==
    [sq EXCEPT !.state = "sleeping", !.attempt = sq.attempt + 1,
               !.connectListener = FALSE, !.disconnectListener = FALSE,
               !.confirmTimer = FALSE, !.timeoutTimer = FALSE,
               !.timeoutAwaiting = FALSE,
               !.falsePositive = sq.sawConnect]

\* the loop condition of retryConnecting (245)
RetryLoopGoesOn(sq) == sq.attempt < maxAttempts

\* reconnect(): if (this.connectingPromise) return this.connectingPromise
ReconnectNeverJoins(guard) == FALSE

ReconnectJoins(guard) == guard # 0

\* the slot a new run takes: one that no promise in use refers to
FreeSlots == {s \in SeqIds : ~Pending(seqs[s]) /\ connectingPromise # s}
NewSlot == CHOOSE s \in FreeSlots : \A t \in FreeSlots : s <= t

\* sendCommandAsync after the connection is ensured (lines 360-388): with
\* a channel the frame is written at once, without one the call sleeps
\* 250 ms before discovery
AfterConnect(cr, channel) ==
    IF channel = "char"
    THEN [cr EXCEPT !.pc = "writing", !.writes = cr.writes + 1]
    ELSE [cr EXCEPT !.pc = "sleep250"]

\* the call is over
Returned(cr) == IdleCaller

NoCallHistory(cr) == [cr EXCEPT !.awaits = 0, !.connResult = "none",
                                !.sameTurnAs = 0]

(***************************************************************************)
(* sendCommandAsync, up to its first suspension (lines 357-388), for the   *)
(* call record cr of caller c: the next values of what it changes.         *)
(*   connected: straight on to the frame and the write                     *)
(*   reconnect() with the guard set: the guard's promise is returned, and  *)
(*     the call gets that promise's outcome, at once if it is settled      *)
(*   reconnect() with the guard empty: a retryConnecting run is started,   *)
(*     whose first attemptConnection() runs in the same turn               *)
(***************************************************************************)
OthersPending(s) == \E t \in SeqIds \ {s} : Pending(seqs[t])

SendStart(c, cr, turn) ==
    IF isConnected
    THEN [callers |-> [callers EXCEPT
                          ![c] = AfterConnect(cr, blindsControlCharacteristic)],
          seqs |-> seqs, guard |-> connectingPromise, link |-> link,
          turn |-> turn]
    ELSE IF ReconnectJoins(connectingPromise)
    THEN LET s == connectingPromise
             joined == [cr EXCEPT !.awaits = s, !.sameTurnAs = turn]
         IN  [callers |->
                 [callers EXCEPT ![c] =
                     IF Pending(seqs[s])
                     THEN [joined EXCEPT !.pc = "awaitConnect"]
                     ELSE IF seqs[s].state = "rejected"
                     THEN Returned(joined)
                     ELSE AfterConnect([joined EXCEPT !.connResult = "ok"],
                                       blindsControlCharacteristic)],
              seqs |-> seqs, guard |-> connectingPromise, link |-> link,
              turn |-> turn]
    ELSE LET s == NewSlot
         IN  [callers |->
                 [d \in Procs |->
                     IF d = c
                     THEN [cr EXCEPT !.pc = "awaitConnect", !.awaits = s,
                                     !.sameTurnAs = turn]
                     ELSE IF callers[d].awaits = s \/ callers[d].sameTurnAs = s
                     THEN NoCallHistory(callers[d])
                     ELSE callers[d]],
              seqs |-> [seqs EXCEPT
                           ![s] = attemptConnection(FreeSeq)],
              guard |-> s,
              link |-> connectAsync(link),
              turn |-> IF turn # 0 THEN turn
                       ELSE IF OthersPending(s) THEN 0 ELSE s]

SendEnabled ==
    isConnected \/ ReconnectJoins(connectingPromise) \/ FreeSlots # {}

(***************************************************************************)
(* The synchronous head of the high-level operations: what they assign     *)
(* before their first await (lines 301-303, 319-322, 328-331, 337-339).    *)
(***************************************************************************)
HeadTarget(op, arg) ==
    CASE op = "open" -> OpenTarget
      [] op = "close" -> CloseTarget
      [] op = "stop" -> NoTarget
      [] op = "setPosition" -> arg
      [] OTHER -> targetPosition

\* stopAsync with the direction left as it was
HeadDirectionStopKeeps(op) ==
    CASE op = "open" -> Increasing
      [] op = "close" -> Decreasing
      [] OTHER -> direction

HeadDirection(op) ==
    CASE op = "open" -> Increasing
      [] op = "close" -> Decreasing
      [] op = "stop" -> Stopped
      [] OTHER -> direction

HeadPositions(op) ==
    IF op \in {"open", "close", "setPosition"} THEN <<>> ELSE lastFewPositions

NoHistory == [turn |-> 0, setTarget |-> NoTarget, nSamples |-> 0,
              pure |-> TRUE]

\* the history of the inputs since the last target was commanded
HeadHist(op, arg) ==
    IF op \in {"open", "close", "stop", "setPosition"}
    THEN [setTarget |-> HeadTarget(op, arg), nSamples |-> 0, pure |-> TRUE]
    ELSE [setTarget |-> hist.setTarget, nSamples |-> hist.nSamples,
          pure |-> hist.pure]

\* openAsync / closeAsync / stopAsync / setPositionAsync / updatePositionAsync
\* called: the head, then sendCommandAsync up to its first suspension
SendCommandCall(c, op, arg, track) ==
    /\ callers[c].pc = "idle"
    /\ SendEnabled
    /\ LET cr == [IdleCaller EXCEPT !.op = op, !.arg = arg, !.track = track]
           nxt == SendStart(c, cr, hist.turn)
           h == HeadHist(op, arg)
       IN  /\ callers' = nxt.callers
           /\ seqs' = nxt.seqs
           /\ connectingPromise' = nxt.guard
           /\ link' = nxt.link
           /\ hist' = [turn |-> nxt.turn, setTarget |-> h.setTarget,
                       nSamples |-> h.nSamples, pure |-> h.pure]
           /\ lastAct' = [k |-> "call", op |-> op, arg |-> arg,
                          failed |-> nxt.callers[c].pc = "idle"]
    /\ targetPosition' = HeadTarget(op, arg)
    /\ direction' = HeadDirection(op)
    /\ lastFewPositions' = HeadPositions(op)
    /\ emitted' = <<>>
    /\ UNCHANGED <<isConnected, blindsControlCharacteristic,
                   discoveringPromise, position, batteryPercentage, discReq, codecVars,
                   discoveries>>

CallCommand(c, op, arg, track) ==
    SendCommandCall(c, op, arg, track) /\ UNCHANGED envVars

\* disconnectAsync(): isConnected = false, then the transport is asked to
\* disconnect and the call waits for it
CallDisconnect(c) ==
    /\ callers[c].pc = "idle"
    /\ isConnected' = FALSE
    /\ discReq' = TRUE
    /\ callers' = [callers EXCEPT
                      ![c] = [IdleCaller EXCEPT
                                 !.pc = "disconnecting", !.op = "disconnect",
                                 !.streak = callers[c].streak]]
    /\ hist' = [hist EXCEPT !.turn = 0]
    /\ emitted' = <<>>
    /\ lastAct' = [k |-> "call", op |-> "disconnect", arg |-> 0,
                   failed |-> FALSE]
    /\ UNCHANGED <<blindsControlCharacteristic, connectingPromise,
                   discoveringPromise, motionVars, seqs, link, codecVars,
                   discoveries, envVars>>

(***************************************************************************)
(* Transport signals                                                       *)
(***************************************************************************)
Quiet == [hist EXCEPT !.turn = 0]

\* the peripheral emits `connect`: the once("connect") listener of every
\* attempt that still holds one arms its 3 s confirmation timer (213-220);
\* the device's own listener only logs (61-64)
ConnectSignal ==
    /\ link = "connecting"
    /\ link' = "connected"
    /\ seqs' = [s \in SeqIds |->
                   IF seqs[s].state = "attempting" /\ seqs[s].connectListener
                   THEN [seqs[s] EXCEPT !.connectListener = FALSE,
                                        !.confirmTimer = TRUE,
                                        !.sawConnect = TRUE]
                   ELSE seqs[s]]
    /\ hist' = Quiet
    /\ emitted' = <<>>
    /\ lastAct' = [k |-> "step"]
    /\ UNCHANGED <<deviceVars, motionVars, callers,
                   discReq, codecVars,
                   discoveries, envVars>>

\* the once("disconnect") listener of an attempt (221-226)
DisconnectListener(sq) ==
    IF sq.hasResolved THEN sq ELSE RetryCatch(sq)

\* the device's on("disconnect") listener (65-69): the channel it leaves
ChannelKeptOnDisconnect(channel) == channel

ChannelAfterDisconnect(channel) == Null

\* the same listener with the position buffer dropped as well
PositionsClearedOnDisconnect(buf) == <<>>

\* the position buffer the listener leaves: it assigns the channel and
\* isConnected and nothing else
PositionsAfterDisconnect(buf) == buf

\* the peripheral emits `disconnect`, on its own while the link is up or
\* in answer to disconnectAsync(): the device's listener clears the channel
\* and isConnected, the listener of every unsettled attempt rejects it (the
\* retry loop catches that and starts its 250 ms sleep), and the calls
\* waiting in disconnectAsync() resume
DisconnectSignal ==
    /\ link = "connected" \/ discReq
    /\ link' = "disconnected"
    /\ discReq' = FALSE
    /\ blindsControlCharacteristic' =
           ChannelAfterDisconnect(blindsControlCharacteristic)
    /\ isConnected' = FALSE
    /\ seqs' = [s \in SeqIds |->
                   IF seqs[s].state = "attempting" /\ seqs[s].disconnectListener
                   THEN DisconnectListener(seqs[s])
                   ELSE seqs[s]]
    /\ callers' = [d \in Procs |->
                      IF callers[d].pc = "disconnecting"
                      THEN [IdleCaller EXCEPT
                               !.streak = IF callers[d].streak < 2
                                          THEN callers[d].streak + 1 ELSE 2]
                      ELSE callers[d]]
    /\ hist' = Quiet
    /\ emitted' = <<>>
    /\ lastAct' = [k |-> "disconnectSignal",
                   done |-> {d \in Procs : callers[d].pc = "disconnecting"}]
    /\ lastFewPositions' = PositionsAfterDisconnect(lastFewPositions)
    /\ UNCHANGED <<connectingPromise, discoveringPromise, position,
                   targetPosition, direction, batteryPercentage, codecVars,
                   discoveries, envVars>>

(***************************************************************************)
(* Timers of the connect sequence                                          *)
(***************************************************************************)
\* the 3 s timer armed by the connect signal fires (214-219): unless the
\* attempt saw a disconnect it resolves; retryConnecting resolves with it,
\* reconnect() sets isConnected and empties the guard (266-270), and every
\* call awaiting the run goes on in sendCommandAsync
ConfirmTimer(s) ==
    /\ seqs[s].state = "attempting"
    /\ seqs[s].confirmTimer
    /\ IF seqs[s].hasDisconnectedAlready
       THEN /\ seqs' = [seqs EXCEPT ![s].confirmTimer = FALSE]
            /\ UNCHANGED <<isConnected, connectingPromise, callers>>
       ELSE /\ seqs' = [seqs EXCEPT ![s].confirmTimer = FALSE,
                                    ![s].hasResolved = TRUE,
                                    ![s].state = "resolved"]
            /\ isConnected' = TRUE
            /\ connectingPromise' = 0
            /\ callers' =
                 [d \in Procs |->
                     IF callers[d].pc = "awaitConnect" /\ callers[d].awaits = s
                     THEN AfterConnect(
                              [callers[d] EXCEPT !.connResult = "ok"],
                              blindsControlCharacteristic)
                     ELSE callers[d]]
    /\ hist' = Quiet
    /\ emitted' = <<>>
    /\ lastAct' = [k |-> "step"]
    /\ UNCHANGED <<blindsControlCharacteristic, discoveringPromise,
                   motionVars, link, discReq,
                   codecVars,
                   discoveries, envVars>>

\* the 5 s timer of an attempt fires (230-238): with the attempt neither
\* confirmed nor rejected it calls disconnectAsync() and waits for it
AttemptTimeout(s) ==
    /\ seqs[s].state = "attempting"
    /\ seqs[s].timeoutTimer
    /\ IF ~seqs[s].hasResolved /\ ~seqs[s].hasDisconnectedAlready
       THEN /\ seqs' = [seqs EXCEPT ![s].timeoutTimer = FALSE,
                                    ![s].timeoutAwaiting = TRUE]
            /\ isConnected' = FALSE
            /\ discReq' = TRUE
       ELSE /\ seqs' = [seqs EXCEPT ![s].timeoutTimer = FALSE]
            /\ UNCHANGED <<isConnected, discReq>>
    /\ hist' = Quiet
    /\ emitted' = <<>>
    /\ lastAct' = [k |-> "step"]
    /\ UNCHANGED <<blindsControlCharacteristic, connectingPromise,
                   discoveringPromise, motionVars, callers, link, codecVars,
                   discoveries, envVars>>

\* the 250 ms sleep of the retry loop ends (253-257): the loop starts the
\* next attempt, or leaves and rejects with "Failed to connect"; the calls
\* awaiting the run then reject, and reconnect() leaves the guard as it is
SleepDone(s) ==
    /\ seqs[s].state = "sleeping"
    /\ IF RetryLoopGoesOn(seqs[s])
       THEN /\ seqs' = [seqs EXCEPT ![s] = attemptConnection(seqs[s])]
            /\ link' = connectAsync(link)
            /\ UNCHANGED callers
       ELSE /\ seqs' = [seqs EXCEPT ![s].state = "rejected"]
            /\ callers' =
                 [d \in Procs |->
                     IF callers[d].pc = "awaitConnect" /\ callers[d].awaits = s
                     THEN Returned(callers[d])
                     ELSE callers[d]]
            /\ UNCHANGED link
    /\ hist' = Quiet
    /\ emitted' = <<>>
    /\ lastAct' = [k |-> "step"]
    /\ UNCHANGED <<deviceVars, motionVars, discReq,
                   codecVars,
                   discoveries, envVars>>

(***************************************************************************)
(* Discovery and the write                                                 *)
(***************************************************************************)
\* serviceDiscoveryAsync(): if (this.discoveringPromise) return it (275)
DiscoveryNeverJoins(guard) == FALSE

DiscoveryJoins(guard) == guard # Null

\* the 250 ms sleep of sendCommandAsync ends and serviceDiscoveryAsync()
\* runs (274-281): with the guard set its promise is returned (pending, or
\* already rejected), otherwise the transport is asked to discover
Sleep250Done(c) ==
    /\ callers[c].pc = "sleep250"
    /\ IF DiscoveryJoins(discoveringPromise)
       THEN /\ callers' =
                 [callers EXCEPT
                     ![c] = IF discoveringPromise = "rejected"
                            THEN Returned(callers[c])
                            ELSE [callers[c] EXCEPT !.pc = "awaitDiscover"]]
            /\ UNCHANGED <<discoveringPromise, discoveries>>
       ELSE /\ callers' = [callers EXCEPT ![c].pc = "awaitDiscover"]
            /\ discoveringPromise' = "pending"
            /\ discoveries' = discoveries + 1
    /\ hist' = Quiet
    /\ emitted' = <<>>
    /\ lastAct' = [k |-> "step"]
    /\ UNCHANGED <<isConnected, blindsControlCharacteristic,
                   connectingPromise, motionVars, seqs, link, discReq,
                   codecVars, envVars>>

\* the transport settles the discovery (281-284), with the characteristic,
\* with no characteristic, or with an error.  setBlindsControlCharacteristic
\* (85-90) empties both guards and stores what it was given; given undefined
\* it throws when it registers the listener (91).  Nothing in the code ties
\* the completion to the link, so it may come in any link state.
DiscoveryDone(outcome) ==
    /\ discoveringPromise = "pending"
    /\ discoveries' = discoveries - 1
    /\ IF outcome = "error"
       THEN /\ discoveringPromise' = "rejected"
            /\ UNCHANGED <<connectingPromise, blindsControlCharacteristic>>
       ELSE /\ discoveringPromise' = Null
            /\ connectingPromise' = 0
            /\ blindsControlCharacteristic' =
                   IF outcome = "found" THEN "char" ELSE "undefined"
    /\ callers' = [d \in Procs |->
                      IF callers[d].pc = "awaitDiscover"
                      THEN IF outcome = "found"
                           THEN [callers[d] EXCEPT
                                    !.pc = "writing",
                                    !.writes = callers[d].writes + 1]
                           ELSE Returned(callers[d])
                      ELSE callers[d]]
    /\ hist' = Quiet
    /\ emitted' = <<>>
    /\ lastAct' = [k |-> "step"]
    /\ UNCHANGED <<isConnected, motionVars, seqs, link, discReq, codecVars, envVars>>

\* the events a high-level operation emits after its sendCommandAsync
\* (324-325, 333-334, 341-342): the fields as they are by then
EmitsAfterWrite(op) ==
    IF op \in {"open", "close", "stop"}
    THEN << <<"direction", direction>>, <<"targetPosition", targetPosition>> >>
    ELSE <<>>

FreeTrackers == {t \in Trackers : callers[t].pc = "idle"}

\* the tracking loops running or about to be started
TrackLoad ==
    Cardinality(Trackers \ FreeTrackers)
    + Cardinality({c \in Callers : /\ callers[c].pc # "idle"
                                   /\ callers[c].op = "setPosition"
                                   /\ callers[c].track})

\* a tracking loop that arms its timer whatever the target is
TrackAlwaysGoesOn(target) == TRUE

\* trackCurrentPosition after its updatePositionAsync (313):
\* if (this.targetPosition != null) this.trackCurrentPosition()
TrackGoesOn(target) == target # NoTarget

\* sendCommandAsync with the failed write issued again
WriteRetried(cr) == [cr EXCEPT !.writes = IF cr.writes < 2 THEN cr.writes + 1
                                          ELSE 2]

\* the rejection of writeAsync leaves sendCommandAsync (388) and the
\* operation that awaits it: the call is over
WriteFailed(cr) == Returned(cr)

\* writeAsync settles.  A failed write rejects the call.  After a write
\* that succeeded, open/close/stop emit their events, setPositionAsync
\* with trackPosition starts the tracking loop (305-307, 310-311), and a
\* tracking loop arms its timer again while there is a target (313-315).
WriteSettles(c, ok) ==
    /\ callers[c].pc = "writing"
    /\ LET cr == callers[c]
           done == Returned(cr)
           t == CHOOSE t \in FreeTrackers : \A u \in FreeTrackers : t <= u
       IN  /\ emitted' = IF ok THEN EmitsAfterWrite(cr.op) ELSE <<>>
           /\ callers' =
                IF ~ok
                THEN [callers EXCEPT ![c] = WriteFailed(cr)]
                ELSE IF cr.op = "track" /\ TrackGoesOn(targetPosition)
                THEN [callers EXCEPT ![c] = [cr EXCEPT !.pc = "timer",
                                                       !.writes = 0]]
                ELSE IF ok /\ cr.op = "setPosition" /\ cr.track
                        /\ FreeTrackers # {}
                THEN [callers EXCEPT ![c] = done,
                                     ![t] = [IdleCaller EXCEPT
                                                !.pc = "timer",
                                                !.op = "track"]]
                ELSE [callers EXCEPT ![c] = done]
    /\ hist' = Quiet
    /\ lastAct' = [k |-> "writeDone", op |-> callers[c].op, ok |-> ok]
    /\ UNCHANGED <<deviceVars, motionVars, seqs, link, discReq, codecVars,
                   discoveries>>

WriteDone(c, ok) ==
    WriteSettles(c, ok) /\ UNCHANGED envVars

\* the 1 s timer of trackCurrentPosition fires (311-312):
\* updatePositionAsync(), that is sendCommandAsync up to its suspension
TrackTick(t) ==
    /\ callers[t].pc = "timer"
    /\ SendEnabled
    /\ LET nxt == SendStart(t, callers[t], 0)
       IN  /\ callers' = nxt.callers
           /\ seqs' = nxt.seqs
           /\ connectingPromise' = nxt.guard
           /\ link' = nxt.link
    /\ hist' = Quiet
    /\ emitted' = <<>>
    /\ lastAct' = [k |-> "step"]
    /\ UNCHANGED <<isConnected, blindsControlCharacteristic,
                   discoveringPromise, motionVars, discReq, codecVars,
                   discoveries, envVars>>

(***************************************************************************)
(* Inbound frames and the state tracker (the "data" listener, 91-185)      *)
(***************************************************************************)
SampleValues == <<55, 20, 40>>
Samples == {SampleValues[i] : i \in 1..NumSamples}
BatteryLevels == {80}
Targets == {20, 40}

\* a frame of len bytes with the class byte id at index 1 and value at
\* index at (indices as in the code, from 0)
InFrame(id, at, value, len) ==
    [i \in 1..len |->
        IF i = 1 THEN 154
        ELSE IF i = 2 THEN id
        ELSE IF i = at + 1 THEN value
        ELSE 0]

PositionResponse(v) == InFrame(AM43_COMMAND_ID_GET_POSITION, 5, v, 10)
PositionNotify(v) == InFrame(AM43_NOTIFY_POSITION, 4, v, 8)
BatteryResponse(v) == InFrame(AM43_COMMAND_ID_GET_BATTERYSTATUS, 7, v, 9)
LightResponse(v) == InFrame(AM43_COMMAND_ID_GET_LIGHTSENSOR, 4, v, 6)
AckFrame(id) == InFrame(id, 3, 90, 5)

InboundFrames ==
    {PositionResponse(v) : v \in Samples}
    \cup {PositionNotify(v) : v \in Samples}
    \cup {BatteryResponse(v) : v \in BatteryLevels}
    \cup {LightResponse(v) : v \in {9}}
    \cup {AckFrame(AM43_COMMAND_ID_SET_POSITION)}

\* dataArray[i], i from 0
At(frame, i) == IF i + 1 <= Len(frame) THEN frame[i + 1] ELSE Undefined

\* parseInt(dataArray[i]) (100, 113, 120, 128)
parseInt(x) == IF x = Undefined THEN NaN ELSE x

IsPositionFrame(frame) ==
    At(frame, 1) \in {AM43_COMMAND_ID_GET_POSITION, AM43_NOTIFY_POSITION}

\* the position a position frame carries: dataArray[5] of a poll
\* response (100), dataArray[4] of a notification (128)
FramePosition(frame) ==
    IF At(frame, 1) = AM43_COMMAND_ID_GET_POSITION
    THEN parseInt(At(frame, 5))
    ELSE parseInt(At(frame, 4))

\* lastFewPositions.unshift(p) without the truncation
UnshiftKeepsAll(buf, p) == <<p>> \o buf

\* lastFewPositions.unshift(p); length = Math.min(5, length)  (103-107)
Unshift(buf, p) ==
    LET all == <<p>> \o buf
    IN  SubSeq(all, 1, IF Len(all) < BufferCap THEN Len(all) ELSE BufferCap)

\* hasStopped() on a buffer that is never full
NeverStopped(buf) == FALSE

\* hasStopped() (196-200)
hasStopped(buf) ==
    /\ ~(Len(buf) < BufferCap)
    /\ \A i \in 1..Len(buf) : buf[i] = buf[1] /\ buf[1] # NaN

\* the tentative direction (162)
TentativeDirection(target, pos) ==
    IF target < pos THEN Increasing ELSE Decreasing

\* the target after re-evaluation (163, 169-172)
TargetNeverCleared(target, pos, buf) == target

ReevaluatedTarget(target, pos, buf) ==
    IF pos = target \/ hasStopped(buf) THEN NoTarget ELSE target

\* the direction after re-evaluation, without the forced stop
DirectionNotForced(target, pos, buf) == TentativeDirection(target, pos)

\* the direction after re-evaluation (162, 173-175)
ReevaluatedDirection(target, pos, buf) ==
    IF ReevaluatedTarget(target, pos, buf) = NoTarget
    THEN Stopped
    ELSE TentativeDirection(target, pos)

\* the events of the re-evaluation, emitted for every event whether or
\* not the value changed
ChangeEventsAlways(oldDir, newDir, oldTarget, newTarget) ==
    << <<"direction", newDir>>, <<"targetPosition", newTarget>> >>

\* the events of the re-evaluation with the target's event first
ChangeEventsTargetFirst(oldDir, newDir, oldTarget, newTarget) ==
    (IF newTarget # oldTarget
     THEN << <<"targetPosition", newTarget>> >> ELSE <<>>)
    \o (IF newDir # oldDir THEN << <<"direction", newDir>> >> ELSE <<>>)

\* the events of the re-evaluation (176-183)
ChangeEvents(oldDir, newDir, oldTarget, newTarget) ==
    (IF newDir # oldDir THEN << <<"direction", newDir>> >> ELSE <<>>)
    \o (IF newTarget # oldTarget
        THEN << <<"targetPosition", newTarget>> >> ELSE <<>>)

\* the event of the frame's own case of the switch (97-159)
FrameEvents(frame) ==
    CASE IsPositionFrame(frame) ->
             << <<"position", FramePosition(frame)>> >>
      [] At(frame, 1) = AM43_COMMAND_ID_GET_LIGHTSENSOR ->
             << <<"lightLevel", parseInt(At(frame, 4))>> >>
      [] At(frame, 1) = AM43_COMMAND_ID_GET_BATTERYSTATUS ->
             << <<"batteryPercentage", parseInt(At(frame, 7))>> >>
      [] OTHER -> <<>>

\* a frame arrives on the subscribed characteristic: the switch on its
\* class byte, then the re-evaluation of the motion (161-184), which runs
\* after every frame while there is a target
FrameArrives(frame) ==
    /\ blindsControlCharacteristic = "char"
    /\ link = "connected"
    /\ LET pos == IF IsPositionFrame(frame)
                  THEN FramePosition(frame) ELSE position
           buf == IF IsPositionFrame(frame)
                  THEN Unshift(lastFewPositions, pos) ELSE lastFewPositions
           newTarget == IF targetPosition # NoTarget
                        THEN ReevaluatedTarget(targetPosition, pos, buf)
                        ELSE targetPosition
           newDir == IF targetPosition # NoTarget
                     THEN ReevaluatedDirection(targetPosition, pos, buf)
                     ELSE direction
       IN  /\ position' = pos
           /\ lastFewPositions' = buf
           /\ batteryPercentage' =
                  IF At(frame, 1) = AM43_COMMAND_ID_GET_BATTERYSTATUS
                  THEN parseInt(At(frame, 7)) ELSE batteryPercentage
           /\ direction' = newDir
           /\ targetPosition' = newTarget
           /\ emitted' = FrameEvents(frame)
                         \o ChangeEvents(direction, newDir,
                                         targetPosition, newTarget)
    /\ hist' = IF targetPosition = NoTarget
               THEN NoHistory
               ELSE IF IsPositionFrame(frame)
               THEN [hist EXCEPT !.turn = 0,
                                 !.nSamples = IF hist.nSamples < BufferCap + 1
                                              THEN hist.nSamples + 1
                                              ELSE hist.nSamples]
               ELSE [hist EXCEPT !.turn = 0, !.pure = FALSE]
    /\ lastAct' = [k |-> "frame", id |-> At(frame, 1), len |-> Len(frame),
                   sample |-> IsPositionFrame(frame),
                   value |-> IF IsPositionFrame(frame)
                             THEN FramePosition(frame) ELSE 0]
    /\ UNCHANGED <<deviceVars, seqs, callers, link, discReq, codecVars,
                   discoveries, hostVars>>

DataFrame(frame) ==
    FrameArrives(frame) /\ UNCHANGED <<replies, lastEvent, hap>>

(***************************************************************************)
(* The host layer's inactivity policy (AM43Platform.js).  Time is counted  *)
(* in seconds; lastHAPInteraction holds the age of the timestamp.          *)
(***************************************************************************)
HostTimeouts == 0..MaxTimeout
AgeCap == MaxTimeout + 1

\* accessory.secondsSinceLastHAPInteraction() (198-202)
secondsSinceLastHAPInteraction ==
    IF lastHAPInteraction # NoInteraction THEN lastHAPInteraction ELSE 0

\* the TargetPosition set handler is called (469-481): it notes the
\* interaction and calls setPositionAsync(100 - value, true)
TargetPositionSet(v) ==
    /\ checkTimer = 0
    /\ TrackLoad < MaxTrack
    /\ SendCommandCall(1, "setPosition", v, TRUE)
    /\ lastHAPInteraction' = 0
    /\ UNCHANGED <<hapInteractionTimeout, checkTimer, replies, lastEvent,
                   hap>>

\* setPositionAsync settles for the set handler: after a success it arms
\* a timer of hapInteractionTimeout * 1000 + 500 ms (482-488)
SetHandlerResumes(ok) ==
    /\ callers[1].op = "setPosition"
    /\ WriteSettles(1, ok)
    /\ checkTimer' = IF ok THEN hapInteractionTimeout + 1 ELSE checkTimer
    /\ UNCHANGED <<hapInteractionTimeout, lastHAPInteraction, replies,
                   lastEvent, hap>>

\* a second passes
HostTick ==
    /\ checkTimer # 1
    /\ lastHAPInteraction' =
           IF lastHAPInteraction # NoInteraction /\ lastHAPInteraction < AgeCap
           THEN lastHAPInteraction + 1
           ELSE lastHAPInteraction
    /\ checkTimer' = IF checkTimer > 1 THEN checkTimer - 1 ELSE checkTimer
    /\ hist' = Quiet
    /\ emitted' = <<>>
    /\ lastAct' = [k |-> "step"]
    /\ UNCHANGED <<deviceVars, motionVars, seqs, callers, link, discReq,
                   discoveries, codecVars, hapInteractionTimeout, replies,
                   lastEvent, hap>>

\* the set handler's timer fires: checkForHAPInteractionTimeout() (218-237),
\* whose body is commented out, returns without doing anything
HostCheckFires ==
    /\ checkTimer = 1
    /\ checkTimer' = 0
    /\ hist' = Quiet
    /\ emitted' = <<>>
    /\ lastAct' = [k |-> "hostCheck"]
    /\ UNCHANGED <<deviceVars, motionVars, seqs, callers, link, discReq,
                   discoveries, codecVars, hapInteractionTimeout,
                   lastHAPInteraction, replies, lastEvent, hap>>

\* the frames whose events the host answers with
\* checkForHAPInteractionTimeout() (302-332)
HostFrames == {PositionNotify(20), BatteryResponse(80)}

(***************************************************************************)
(* The frame encoder on its own                                            *)
(***************************************************************************)
CommandIds ==
    {AM43_COMMAND_ID_SET_MOVE, AM43_COMMAND_ID_SET_POSITION,
     AM43_COMMAND_ID_GET_POSITION, AM43_COMMAND_ID_GET_LIGHTSENSOR,
     AM43_COMMAND_ID_GET_BATTERYSTATUS}

PayloadBytes == {0, 1, 100, AM43_MOVE_OPEN, AM43_MOVE_CLOSE, AM43_MOVE_STOP, 255}

Payloads == UNION {[1..n -> PayloadBytes] : n \in 0..MaxPayload}

\* sendCommandAsync builds the frame of its arguments (363-377)
Encode ==
    /\ bufferArray = <<>>
    /\ bufferArray' = BuildFrame(commandID, data)
    /\ lastAct' = [k |-> "encode"]
    /\ UNCHANGED <<deviceVars, motionVars, seqs, callers, link, discReq,
                   discoveries, commandID, data, emitted, hist, envVars>>

(***************************************************************************)
(* Specifications                                                          *)
(***************************************************************************)
\* the device as its constructor leaves it (60-78), the link down
Init ==
    /\ isConnected = FALSE
    /\ blindsControlCharacteristic = Null
    /\ connectingPromise = 0
    /\ discoveringPromise = Null
    /\ position = 0
    /\ targetPosition = NoTarget
    /\ direction = Stopped
    /\ batteryPercentage = 50
    /\ lastFewPositions = <<>>
    /\ seqs = [s \in SeqIds |-> FreeSeq]
    /\ callers = [c \in Procs |-> IdleCaller]
    /\ link = "disconnected"
    /\ discReq = FALSE
    /\ discoveries = 0
    /\ replies = 0
    /\ lastEvent = NoEvents
    /\ hap = NoValues
    /\ hapInteractionTimeout = 0
    /\ lastHAPInteraction = NoInteraction
    /\ checkTimer = 0
    /\ commandID = 0
    /\ data = <<>>
    /\ bufferArray = <<>>
    /\ emitted = <<>>
    /\ lastAct = [k |-> "init"]
    /\ hist = NoHistory

Next ==
    \/ \E c \in Callers : CallCommand(c, "updatePosition", 0, FALSE)
    \/ \E c \in Callers : CallDisconnect(c)
    \/ ConnectSignal
    \/ DisconnectSignal
    \/ \E s \in SeqIds : ConfirmTimer(s)
    \/ \E s \in SeqIds : AttemptTimeout(s)
    \/ \E s \in SeqIds : SleepDone(s)
    \/ \E c \in Procs : Sleep250Done(c)
    \/ \E outcome \in {"found", "none", "error"} : DiscoveryDone(outcome)
    \/ \E c \in Procs, ok \in BOOLEAN : WriteDone(c, ok)

Spec == Init /\ [][Next]_vars

\* the device once connected and discovered, as Spec reaches it, with the
\* position the constructor or the host's cache gave it
InitMotion ==
    /\ isConnected = TRUE
    /\ blindsControlCharacteristic = "char"
    /\ connectingPromise = 0
    /\ discoveringPromise = Null
    /\ position \in {0, 40}
    /\ targetPosition = NoTarget
    /\ direction = Stopped
    /\ batteryPercentage = 50
    /\ lastFewPositions = <<>>
    /\ seqs = [s \in SeqIds |-> FreeSeq]
    /\ callers = [c \in Procs |-> IdleCaller]
    /\ link = "connected"
    /\ discReq = FALSE
    /\ discoveries = 0
    /\ replies = 0
    /\ lastEvent = NoEvents
    /\ hap = NoValues
    /\ hapInteractionTimeout = 0
    /\ lastHAPInteraction = NoInteraction
    /\ checkTimer = 0
    /\ commandID = 0
    /\ data = <<>>
    /\ bufferArray = <<>>
    /\ emitted = <<>>
    /\ lastAct = [k |-> "init"]
    /\ hist = NoHistory

\* the callers of the high-level operations
MotionCallers == {1}

\* setPositionAsync(v, track), with at most MaxTrack tracking loops
CallSetPosition(c, v, track) ==
    /\ track => TrackLoad < MaxTrack
    /\ CallCommand(c, "setPosition", v, track)

NextMotion ==
    \/ \E c \in MotionCallers,
          op \in {"open", "close", "stop", "updatePosition"} :
           CallCommand(c, op, 0, FALSE)
    \/ \E c \in MotionCallers, v \in Targets, track \in BOOLEAN :
           CallSetPosition(c, v, track)
    \/ \E c \in Procs, ok \in BOOLEAN : WriteDone(c, ok)
    \/ \E t \in Trackers : TrackTick(t)
    \/ \E frame \in InboundFrames : DataFrame(frame)

SpecMotion == InitMotion /\ [][NextMotion]_vars

InitCodec ==
    /\ isConnected = FALSE
    /\ blindsControlCharacteristic = Null
    /\ connectingPromise = 0
    /\ discoveringPromise = Null
    /\ position = 0
    /\ targetPosition = NoTarget
    /\ direction = Stopped
    /\ batteryPercentage = 50
    /\ lastFewPositions = <<>>
    /\ seqs = [s \in SeqIds |-> FreeSeq]
    /\ callers = [c \in Procs |-> IdleCaller]
    /\ link = "disconnected"
    /\ discReq = FALSE
    /\ discoveries = 0
    /\ replies = 0
    /\ lastEvent = NoEvents
    /\ hap = NoValues
    /\ hapInteractionTimeout = 0
    /\ lastHAPInteraction = NoInteraction
    /\ checkTimer = 0
    /\ commandID \in CommandIds
    /\ data \in Payloads
    /\ bufferArray = <<>>
    /\ emitted = <<>>
    /\ lastAct = [k |-> "init"]
    /\ hist = NoHistory

NextCodec == Encode

SpecCodec == InitCodec /\ [][NextCodec]_vars

\* a connected device under the host layer, with the configured timeout
InitHost ==
    /\ isConnected = TRUE
    /\ blindsControlCharacteristic = "char"
    /\ connectingPromise = 0
    /\ discoveringPromise = Null
    /\ position = 0
    /\ targetPosition = NoTarget
    /\ direction = Stopped
    /\ batteryPercentage = 50
    /\ lastFewPositions = <<>>
    /\ seqs = [s \in SeqIds |-> FreeSeq]
    /\ callers = [c \in Procs |-> IdleCaller]
    /\ link = "connected"
    /\ discReq = FALSE
    /\ discoveries = 0
    /\ replies = 0
    /\ lastEvent = NoEvents
    /\ hap = NoValues
    /\ hapInteractionTimeout \in HostTimeouts
    /\ lastHAPInteraction = NoInteraction
    /\ checkTimer = 0
    /\ commandID = 0
    /\ data = <<>>
    /\ bufferArray = <<>>
    /\ emitted = <<>>
    /\ lastAct = [k |-> "init"]
    /\ hist = NoHistory

NextHost ==
    \/ \E v \in Targets : TargetPositionSet(v)
    \/ \E ok \in BOOLEAN : SetHandlerResumes(ok)
    \/ \E t \in Trackers, ok \in BOOLEAN : WriteDone(t, ok)
    \/ \E t \in Trackers : TrackTick(t)
    \/ \E frame \in HostFrames : DataFrame(frame)
    \/ HostTick
    \/ HostCheckFires

\* timers fire
SpecHost ==
    InitHost /\ [][NextHost]_vars /\ WF_vars(HostTick) /\ WF_vars(HostCheckFires)

\* the connected device through disconnects and reconnects while it moves:
\* one caller issues closeAsync and updatePositionAsync, another
\* disconnectAsync, and position and battery frames arrive while the
\* channel is up
PersistFrames == {PositionResponse(55), BatteryResponse(80)}

NextPersist ==
    \/ \E op \in {"close", "updatePosition"} : CallCommand(1, op, 0, FALSE)
    \/ CallDisconnect(2)
    \/ ConnectSignal
    \/ DisconnectSignal
    \/ \E s \in SeqIds : ConfirmTimer(s)
    \/ \E s \in SeqIds : AttemptTimeout(s)
    \/ \E s \in SeqIds : SleepDone(s)
    \/ \E c \in Callers : Sleep250Done(c)
    \/ \E outcome \in {"found", "none", "error"} : DiscoveryDone(outcome)
    \/ \E c \in Callers, ok \in BOOLEAN : WriteDone(c, ok)
    \/ \E frame \in PersistFrames : DataFrame(frame)

SpecPersist == InitMotion /\ [][NextPersist]_vars

(***************************************************************************)
(* A tracked move on a link that stays up: every write succeeds, the motor *)
(* answers every position request with a position sample, and the blind    *)
(* it reports on moves towards the target or stands still.                 *)
(***************************************************************************)
\* the positions the motor may report next: where the blind was last
\* reported, or a position from there towards the target
TowardTarget(pos, target) ==
    {pos} \cup IF target = NoTarget
               THEN {}
               ELSE {v \in Samples \cup Targets :
                        \/ pos <= v /\ v <= target
                        \/ target <= v /\ v <= pos}

\* writeAsync settles on the link that is up; a position request that was
\* written (updatePositionAsync, 345-347) is one more for the motor to answer
PollWriteDone(c) ==
    /\ WriteSettles(c, TRUE)
    /\ replies' = IF callers[c].op \in {"track", "updatePosition"}
                  THEN replies + 1 ELSE replies
    /\ UNCHANGED <<hostVars, lastEvent, hap>>

\* the 1 s timer of the tracking loop, with the motor at most MaxReplies
\* answers behind
PollTick(t) ==
    /\ replies < MaxReplies
    /\ TrackTick(t)

\* the motor answers a position request
PollAnswered(v) ==
    /\ replies > 0
    /\ v \in TowardTarget(position, targetPosition)
    /\ FrameArrives(PositionResponse(v))
    /\ replies' = replies - 1
    /\ UNCHANGED <<lastEvent, hap>>

TrackReports == Samples \cup Targets \cup {0}

\* setPositionAsync(v, true), called when the move before it is over: no
\* target and no tracking loop left
TrackedMove(v) ==
    /\ targetPosition = NoTarget
    /\ FreeTrackers = Trackers
    /\ CallSetPosition(1, v, TRUE)

NextTrack ==
    \/ \E v \in Targets : TrackedMove(v)
    \/ \E c \in Procs : PollWriteDone(c)
    \/ \E t \in Trackers : PollTick(t)
    \/ \E v \in TrackReports : PollAnswered(v)

\* timers fire, writes settle and the motor answers
SpecTrack ==
    /\ InitMotion
    /\ [][NextTrack]_vars
    /\ WF_vars(\E c \in Procs : PollWriteDone(c))
    /\ WF_vars(\E t \in Trackers : PollTick(t))
    /\ WF_vars(\E v \in TrackReports : PollAnswered(v))

(***************************************************************************)
(* The data listener on frames of the known kinds, whole and cut short.    *)
(***************************************************************************)
\* the first n bytes of a frame
Truncated(frame, n) == SubSeq(frame, 1, n)

DecodeFrames ==
    {PositionResponse(20), BatteryResponse(80),
     Truncated(PositionResponse(20), 5), Truncated(PositionNotify(20), 4),
     Truncated(BatteryResponse(80), 7), Truncated(LightResponse(9), 4)}

\* a frame of a known kind that ends before the byte its case reads
\* (dataArray[5], dataArray[4], dataArray[4], dataArray[7])
TooShort(id, len) ==
    \/ id = AM43_COMMAND_ID_GET_POSITION /\ len < 6
    \/ id = AM43_NOTIFY_POSITION /\ len < 5
    \/ id = AM43_COMMAND_ID_GET_LIGHTSENSOR /\ len < 5
    \/ id = AM43_COMMAND_ID_GET_BATTERYSTATUS /\ len < 8

NextDecode ==
    \/ CallCommand(1, "close", 0, FALSE)
    \/ \E ok \in BOOLEAN : WriteDone(1, ok)
    \/ \E frame \in DecodeFrames : DataFrame(frame)

SpecDecode == InitMotion /\ [][NextDecode]_vars

(***************************************************************************)
(* A listener of the device's events (as AM43Platform.js registers with    *)
(* device.on("direction") and device.on("targetPosition")): lastEvent      *)
(* holds the payload of the latest event of each name.                     *)
(***************************************************************************)
\* the payload of the last event of that name in events, or before
LastPayload(name, events, before) ==
    LET named == SelectSeq(events, LAMBDA e : e[1] = name)
    IN  IF named = <<>> THEN before ELSE named[Len(named)][2]

Heard(before, events) ==
    [direction |-> LastPayload("direction", events, before.direction),
     targetPosition |->
         LastPayload("targetPosition", events, before.targetPosition)]

\* openAsync / closeAsync / stopAsync / setPositionAsync(v, false)
HeardCall(op, arg) ==
    /\ SendCommandCall(1, op, arg, FALSE)
    /\ lastEvent' = Heard(lastEvent, emitted')
    /\ UNCHANGED <<hostVars, replies, hap>>

HeardWriteDone(ok) ==
    /\ WriteSettles(1, ok)
    /\ lastEvent' = Heard(lastEvent, emitted')
    /\ UNCHANGED <<hostVars, replies, hap>>

HeardFrame(frame) ==
    /\ FrameArrives(frame)
    /\ lastEvent' = Heard(lastEvent, emitted')
    /\ UNCHANGED <<replies, hap>>

NextEvents ==
    \/ \E op \in {"open", "close", "stop"} : HeardCall(op, 0)
    \/ \E v \in Targets : HeardCall("setPosition", v)
    \/ \E ok \in BOOLEAN : HeardWriteDone(ok)
    \/ \E frame \in InboundFrames : HeardFrame(frame)

SpecEvents == InitMotion /\ [][NextEvents]_vars

(***************************************************************************)
(* Tracked moves commanded one after another, as the TargetPosition set    *)
(* handler of AM43Platform.js does on every write of the characteristic:   *)
(* setPositionAsync(100 - value, true), with up to MaxLoops tracking loops. *)
(***************************************************************************)
LoopCall(v) ==
    /\ TrackLoad < MaxLoops
    /\ CallCommand(1, "setPosition", v, TRUE)

LoopFrames == {PositionResponse(v) : v \in Samples}

NextLoops ==
    \/ \E v \in Targets : LoopCall(v)
    \/ \E c \in Procs, ok \in BOOLEAN : WriteDone(c, ok)
    \/ \E t \in Trackers : TrackTick(t)
    \/ \E frame \in LoopFrames : DataFrame(frame)

SpecLoops == InitMotion /\ [][NextLoops]_vars

(***************************************************************************)
(* The host layer's position reports (AM43Platform.js): the listeners of   *)
(* the device's events write the HomeKit characteristics, the get handler  *)
(* of CurrentPosition answers from the device's stored position.           *)
(***************************************************************************)
\* the positions the motor reports to the host layer
HostPositions == {0, 50, 100}

\* one listener runs (270-318), with the device's fields as they are when
\* the event is emitted
HostListener(h, e, pos, target, dir) ==
    CASE e[1] = "position" ->
             \* position = 100 - position; ... updateValue(100 - position)
             LET shown == 100 - e[2]
             IN  [h EXCEPT !.CurrentPosition = 100 - shown,
                           !.pushed = 100 - shown,
                           !.TargetPosition =
                               IF dir = Stopped THEN 100 - shown ELSE @]
      [] e[1] = "direction" ->
             \* let target = targetPosition ? targetPosition : position
             LET tgt == IF target # NoTarget /\ target # 0
                        THEN target ELSE pos
             IN  [h EXCEPT !.PositionState = e[2],
                           !.CurrentPosition =
                               IF e[2] = Stopped THEN 100 - pos ELSE @,
                           !.TargetPosition =
                               IF e[2] = Stopped THEN 100 - tgt ELSE @]
      [] e[1] = "targetPosition" ->
             [h EXCEPT !.TargetPosition =
                           100 - (IF e[2] = NoTarget THEN pos ELSE e[2])]
      [] OTHER -> h

RECURSIVE HostListeners(_, _, _, _, _)
HostListeners(h, events, pos, target, dir) ==
    IF events = <<>>
    THEN h
    ELSE HostListeners(HostListener(h, Head(events), pos, target, dir),
                       Tail(events), pos, target, dir)

\* a step begins: nothing pushed or returned in it yet
StepBegins(h) == [h EXCEPT !.pushed = NoEvent, !.reported = NoEvent]

\* a position frame arrives and the listeners run inside its emits
ReportFrame(frame) ==
    /\ FrameArrives(frame)
    /\ hap' = HostListeners(StepBegins(hap), emitted', position',
                            targetPosition, direction)
    /\ UNCHANGED <<replies, lastEvent>>

\* closeAsync() is called
ReportCall ==
    /\ SendCommandCall(1, "close", 0, FALSE)
    /\ hap' = StepBegins(hap)
    /\ UNCHANGED <<hostVars, replies, lastEvent>>

\* a write settles; closeAsync emits and the listeners run
ReportWriteDone(c, ok) ==
    /\ WriteSettles(c, ok)
    /\ hap' = HostListeners(StepBegins(hap), emitted', position,
                            targetPosition, direction)
    /\ UNCHANGED <<hostVars, replies, lastEvent>>

\* the get handler of CurrentPosition (425-449): it notes the interaction,
\* requests a position update when the last one is old (stale) or the
\* device is not connected, and returns 100 - device.position
CurrentPositionGet(stale) ==
    /\ IF stale \/ ~isConnected
       THEN SendCommandCall(2, "updatePosition", 0, FALSE)
       ELSE /\ hist' = Quiet
            /\ emitted' = <<>>
            /\ lastAct' = [k |-> "step"]
            /\ UNCHANGED <<deviceVars, motionVars, seqs, callers, link,
                           discReq, discoveries, codecVars>>
    /\ lastHAPInteraction' = 0
    /\ hap' = [StepBegins(hap) EXCEPT !.reported = 100 - position]
    /\ UNCHANGED <<hapInteractionTimeout, checkTimer, replies, lastEvent>>

NextConvention ==
    \/ \E p \in HostPositions : ReportFrame(PositionResponse(p))
    \/ \E p \in HostPositions : ReportFrame(PositionNotify(p))
    \/ ReportCall
    \/ \E c \in Callers, ok \in BOOLEAN : ReportWriteDone(c, ok)
    \/ \E stale \in BOOLEAN : CurrentPositionGet(stale)

SpecConvention == InitMotion /\ [][NextConvention]_vars

(***************************************************************************)
(* The motion heuristic of the historical variant of the data handler      *)
(* (part_001, 147-181): the target is cleared on equality or in one of two *)
(* displacement-threshold branches; there is no buffer of samples.         *)
(***************************************************************************)
\* the threshold branches with the displacement taken along the motion
ThresholdTargetAlongMotion(target, pos) ==
    LET dir == TentativeDirection(target, pos)
    IN  IF pos = target THEN NoTarget
        ELSE IF dir = Increasing /\ pos - target >= 1 THEN NoTarget
        ELSE IF dir = Decreasing /\ target - pos >= 1 THEN NoTarget
        ELSE target

\* the target after re-evaluation (148-171)
ThresholdTarget(target, pos) ==
    LET dir == TentativeDirection(target, pos)
    IN  IF pos = target THEN NoTarget
        ELSE IF dir = Increasing /\ target - pos >= 1 THEN NoTarget
        ELSE IF dir = Decreasing /\ pos - target >= 1 THEN NoTarget
        ELSE target

\* the direction after re-evaluation (148, 172-174)
ThresholdDirection(target, pos) ==
    IF ThresholdTarget(target, pos) = NoTarget
    THEN Stopped
    ELSE TentativeDirection(target, pos)

(***************************************************************************)
(* Properties                                                              *)
(***************************************************************************)
Range(seq) == {seq[i] : i \in 1..Len(seq)}

\* the events of one name in a sequence of emitted events
EventsOf(name, events) == SelectSeq(events, LAMBDA e : e[1] = name)

RECURSIVE XorAll(_)
XorAll(bytes) ==
    IF bytes = <<>> THEN 0 ELSE Xor(Head(bytes), XorAll(Tail(bytes)))

\* C1: two reconnect() calls made in the same turn while the device is
\* disconnected and no attempt is in flight await the same retryConnecting
\* run; when that run's first attempt is confirmed, the run has called the
\* transport's connect once and every call awaiting it has gone on with
\* success.
C1_ConnectDedup ==
    \A c \in Callers :
        LET s == callers[c].sameTurnAs
        IN  s # 0 =>
              /\ callers[c].awaits = s
              /\ (seqs[s].state = "resolved" /\ seqs[s].attempt = 1) =>
                    /\ seqs[s].connects = 1
                    /\ \A d \in Callers :
                           callers[d].awaits = s =>
                               /\ callers[d].connResult = "ok"
                               /\ callers[d].pc \in {"sleep250", "awaitDiscover",
                                                     "writing"}

C1_Witness ==
    \E c, d \in Callers :
        LET s == callers[c].sameTurnAs
        IN  /\ c # d
            /\ s # 0
            /\ callers[c].awaits = s
            /\ callers[d].awaits = s
            /\ seqs[s].state = "resolved"
            /\ seqs[s].attempt = 1
            /\ seqs[s].connects = 1
            /\ callers[c].connResult = "ok"
            /\ callers[d].connResult = "ok"

\* C2: an attempt that saw `connect` and then `disconnect` before its 3 s
\* timer is rejected and leaves the device not connected, and the retry loop
\* goes on to another attempt while fewer than 5 attempts have been made: a
\* run whose last attempt was rejected that way has not given up before its
\* 5th attempt.
C2_FalsePositiveRetried ==
    \A s \in SeqIds :
        seqs[s].falsePositive =>
            /\ (lastAct.k = "disconnectSignal" /\ seqs[s].state = "sleeping")
                   => ~isConnected
            /\ seqs[s].state = "rejected" => seqs[s].connects >= 5

\* C3: a retryConnecting run that fails with "Failed to connect" has called
\* the transport's connect exactly 5 times.
C3_FiveAttempts ==
    \A s \in SeqIds :
        seqs[s].state = "rejected" => seqs[s].connects = 5

\* C4: after a target t is set (the buffer cleared) and nothing but k equal
\* position samples p # t have arrived, the target is still t and the
\* direction is not Stopped while k < 5, and at k = 5 the target is null and
\* the direction is Stopped.
C4_StallDetection ==
    \A p \in Samples :
        ( /\ hist.pure
          /\ hist.setTarget # NoTarget
          /\ p # hist.setTarget
          /\ hist.nSamples \in 1..5
          /\ lastFewPositions = [i \in 1..hist.nSamples |-> p] )
        => IF hist.nSamples < 5
           THEN targetPosition = hist.setTarget /\ direction # Stopped
           ELSE targetPosition = NoTarget /\ direction = Stopped

C4_Witness ==
    /\ hist.pure
    /\ hist.setTarget = 40
    /\ hist.nSamples = 5
    /\ lastFewPositions = <<55, 55, 55, 55, 55>>
    /\ targetPosition = NoTarget
    /\ direction = Stopped

\* C5: after a target t is set and nothing but a strictly decreasing run of
\* position samples has arrived, the target is still t and the direction is
\* Increasing while the last sample is above t, and the target is null and
\* the direction Stopped once the last sample equals t.
C5_TargetReached ==
    ( /\ hist.pure
      /\ hist.setTarget # NoTarget
      /\ hist.nSamples \in 1..5
      /\ Len(lastFewPositions) = hist.nSamples
      /\ \A i \in 1..(hist.nSamples - 1) :
             lastFewPositions[i] < lastFewPositions[i + 1]
      /\ lastFewPositions[1] >= hist.setTarget )
    => IF lastFewPositions[1] > hist.setTarget
       THEN targetPosition = hist.setTarget /\ direction = Increasing
       ELSE targetPosition = NoTarget /\ direction = Stopped

C5_Witness ==
    /\ hist.pure
    /\ hist.setTarget = 20
    /\ hist.nSamples = 2
    /\ lastFewPositions = <<20, 55>>
    /\ targetPosition = NoTarget
    /\ direction = Stopped

\* C6: when the same position sample arrives twice in a row, each of the
\* two frames emits a `position` event first, and if the direction (the
\* target) is the same after the second as after the first, the two frames
\* together emit at most one `direction` (`targetPosition`) event.
C6_NoDuplicateEvents ==
    [][ ( /\ lastAct.k = "frame"
          /\ lastAct.sample
          /\ lastAct'.k = "frame"
          /\ lastAct'.sample
          /\ lastAct'.value = lastAct.value )
        => /\ Len(emitted) >= 1
           /\ Len(emitted') >= 1
           /\ emitted[1] = <<"position", lastAct.value>>
           /\ emitted'[1] = <<"position", lastAct.value>>
           /\ Len(EventsOf("position", emitted)) = 1
           /\ Len(EventsOf("position", emitted')) = 1
           /\ direction' = direction =>
                  Len(EventsOf("direction", emitted))
                  + Len(EventsOf("direction", emitted')) <= 1
           /\ targetPosition' = targetPosition =>
                  Len(EventsOf("targetPosition", emitted))
                  + Len(EventsOf("targetPosition", emitted')) <= 1 ]_vars

\* the target set, then the same sample twice and nothing else: the first
\* set the direction, the second emitted its position only
C6_Witness ==
    /\ hist.pure
    /\ hist.setTarget = 20
    /\ hist.nSamples = 2
    /\ lastFewPositions = <<55, 55>>
    /\ lastAct.k = "frame"
    /\ lastAct.sample
    /\ direction = Increasing
    /\ targetPosition = 20
    /\ emitted = << <<"position", 55>> >>

C8_DisconnectIdempotent ==
    (lastAct.k = "disconnectSignal" /\ lastAct.done # {})
        => /\ ~isConnected
           /\ link = "disconnected"
           /\ blindsControlCharacteristic = Null
           /\ \A c \in lastAct.done :
                  callers[c].pc = "idle" /\ callers[c].streak >= 1

\* the second Disconnect() in a row returns
C8_Witness ==
    /\ lastAct.k = "disconnectSignal"
    /\ \E c \in lastAct.done : callers[c].streak = 2
    /\ ~isConnected
    /\ blindsControlCharacteristic = Null

\* C9: the encoded frame is prefix ++ commandId ++ len(payload) ++ payload
\* ++ checksum, of length len(payload) + 8, and its last byte is the XOR of
\* all the bytes before it, XOR 0xFF.
C9_FrameChecksum ==
    bufferArray # <<>> =>
        LET n == Len(data)
        IN  /\ Len(bufferArray) = n + 8
            /\ SubSeq(bufferArray, 1, 5) = AM43_COMMAND_PREFIX
            /\ bufferArray[6] = commandID
            /\ bufferArray[7] = n
            /\ SubSeq(bufferArray, 8, 7 + n) = data
            /\ bufferArray[n + 8] =
                   Xor(XorAll(SubSeq(bufferArray, 1, n + 7)), 255)

C9_Witness ==
    /\ bufferArray # <<>>
    /\ commandID = AM43_COMMAND_ID_SET_MOVE
    /\ data = <<AM43_MOVE_OPEN>>
    /\ bufferArray[Len(bufferArray)]
           = Xor(XorAll(SubSeq(bufferArray, 1, Len(bufferArray) - 1)), 255)

\* C10: in every state reached by open, close, stop and setPosition calls
\* and inbound frames, a null target comes with the direction Stopped.
C10_NullTargetStopped ==
    targetPosition = NoTarget => direction = Stopped

\* a target was set and a frame has cleared it
C10_Witness ==
    /\ lastAct.k = "frame"
    /\ hist.setTarget # NoTarget
    /\ position # 0
    /\ targetPosition = NoTarget
    /\ direction = Stopped

\* C11: lastFewPositions never holds more than 5 entries, and after each
\* position sample its head is that sample and its tail is the buffer as it
\* was, cut to 4 entries.
C11_BufferNewestFirst ==
    /\ [](Len(lastFewPositions) <= 5)
    /\ [][ (lastAct'.k = "frame" /\ lastAct'.sample)
           => /\ Len(lastFewPositions') >= 1
              /\ lastFewPositions'[1] = lastAct'.value
              /\ position' = lastAct'.value
              /\ Tail(lastFewPositions') =
                    IF Len(lastFewPositions) <= 4
                    THEN lastFewPositions
                    ELSE SubSeq(lastFewPositions, 1, 4) ]_vars

\* the sixth sample since the target was set: the oldest has been dropped
C11_Witness ==
    /\ lastAct.k = "frame"
    /\ lastAct.sample
    /\ hist.nSamples = 6
    /\ Len(lastFewPositions) = 5
    /\ lastFewPositions[1] = lastAct.value
    /\ lastFewPositions[1] # lastFewPositions[5]

\* C12: once a retryConnecting run has failed with "Failed to connect" the
\* connect guard does not hold its promise any more, and no later call
\* fails at once with that earlier failure.
C12_GuardClearedOnFailure ==
    /\ connectingPromise # 0 => seqs[connectingPromise].state # "rejected"
    /\ lastAct.k = "call" => ~lastAct.failed

\* C13: openAsync, closeAsync and stopAsync emit their direction and
\* targetPosition events in the step of the call itself, before the write
\* and whatever its outcome.
C13_EmitsWithTheCall ==
    (lastAct.k = "call" /\ lastAct.op \in {"open", "close", "stop"})
        => /\ <<"direction", direction>> \in Range(emitted)
           /\ <<"targetPosition", targetPosition>> \in Range(emitted)

\* C14: at most one retryConnecting run of the device is pending at any
\* time.
C14_OneConnectSequence ==
    Cardinality({s \in SeqIds : Pending(seqs[s])}) <= 1

\* C15: serviceDiscoveryAsync calls made while a discovery is in flight make
\* no request of their own: the transport never has two requests
\* outstanding, every call waiting for a discovery waits for the one that
\* is outstanding, and when it settles all of them get its outcome.
C15_DiscoveryDedup ==
    /\ [](/\ discoveries <= 1
          /\ (\E c \in Procs : callers[c].pc = "awaitDiscover")
                 => (discoveries = 1 /\ discoveringPromise = "pending"))
    /\ [][ /\ discoveries' > discoveries => discoveries = 0
           /\ discoveries' < discoveries =>
                 \A c, d \in Procs :
                     (callers[c].pc = "awaitDiscover"
                      /\ callers[d].pc = "awaitDiscover")
                     => /\ callers'[c].pc \in {"writing", "idle"}
                        /\ callers'[c].pc = callers'[d].pc ]_vars

\* two calls wait for the one outstanding request
C15_Witness ==
    \E c, d \in Callers :
        /\ c # d
        /\ callers[c].pc = "awaitDiscover"
        /\ callers[d].pc = "awaitDiscover"
        /\ discoveries = 1

\* C16: with hapInteractionTimeout > 0 a connected device whose last HAP
\* interaction is at least that many seconds old is eventually disconnected
\* (unless HAP interacts again); with hapInteractionTimeout <= 0 the host
\* never disconnects it.
C16_IdleDisconnect ==
    /\ [](hapInteractionTimeout <= 0 => (isConnected /\ ~discReq))
    /\ []( ( /\ hapInteractionTimeout > 0
             /\ isConnected
             /\ secondsSinceLastHAPInteraction >= hapInteractionTimeout )
           => <>( \/ ~isConnected
                  \/ secondsSinceLastHAPInteraction < hapInteractionTimeout ) )

\* C17: every step in which the transport signals `disconnect`, whatever
\* the state before it and whatever the calls in progress are doing, ends
\* with the control channel null and the device not connected.
C17_DisconnectClears ==
    [][ lastAct'.k = "disconnectSignal"
        => /\ blindsControlCharacteristic' = Null
           /\ ~isConnected' ]_vars

\* an unsolicited disconnect signal arrives while a call's write is in
\* flight
C17_Witness ==
    /\ lastAct.k = "disconnectSignal"
    /\ lastAct.done = {}
    /\ \E c \in Procs : callers[c].pc = "writing"
    /\ blindsControlCharacteristic = Null
    /\ ~isConnected

\* C18: in every reachable state a non-null control channel implies that
\* the device is connected.
C18_ChannelImpliesConnected ==
    blindsControlCharacteristic # Null => isConnected

\* C19: right after every transport disconnect signal both in-flight
\* guards are empty: connectingPromise and discoveringPromise hold nothing.
C19_GuardsResetOnDisconnect ==
    lastAct.k = "disconnectSignal"
        => /\ connectingPromise = 0
           /\ discoveringPromise = Null

\* C20: a transport disconnect signal, a Disconnect() call and every step
\* of the reconnect after it (connect signal, timers, retries, discovery)
\* leave position, targetPosition, direction, the recent positions and
\* batteryPercentage as they were.
C20_MotionPersists ==
    [][ ( \/ lastAct'.k = "disconnectSignal"
          \/ lastAct'.k = "call" /\ lastAct'.op = "disconnect"
          \/ lastAct'.k = "step" )
        => UNCHANGED motionVars ]_vars

\* connected again with the channel rediscovered, after a Disconnect() that
\* returned, with the motion state of a blind on its way to closed
C20_Witness ==
    /\ callers[2].streak >= 1
    /\ isConnected
    /\ blindsControlCharacteristic = "char"
    /\ lastAct.k = "step"
    /\ position = 55
    /\ targetPosition = CloseTarget
    /\ direction = Decreasing
    /\ lastFewPositions = <<55>>
    /\ batteryPercentage = 80

\* C21: when reconnect() completes successfully (the step in which the
\* device becomes connected), discovery has been part of the connect
\* sequence: the device is connected and the control channel is non-null.
C21_DiscoveredOnConnect ==
    [][ (~isConnected /\ isConnected')
        => blindsControlCharacteristic' # Null ]_vars

\* C22: when the 5 s timer of an attempt fires with the attempt neither
\* confirmed nor rejected, a transport disconnect is forced, and from then
\* on the attempt can only fail, which uses up one attempt of the budget:
\* it is never settled as a success, even if a connect signal's 3 s
\* confirmation was still running at the timeout.
C22_TimeoutFails ==
    [][ \A s \in SeqIds :
          /\ ( /\ seqs[s].state = "attempting"
               /\ ~seqs[s].timeoutAwaiting
               /\ seqs'[s].timeoutAwaiting )
             => discReq'
          /\ (seqs[s].state = "attempting" /\ seqs[s].timeoutAwaiting)
             => \/ seqs'[s].state = "attempting"
                \/ /\ seqs'[s].state = "sleeping"
                   /\ seqs'[s].attempt = seqs[s].attempt + 1 ]_vars

\* C23: every step in which a call issues its transport write leaves the
\* device connected, with a control channel that belongs to the connection
\* that is up: the channel is non-null and the link has not gone down (the
\* disconnect listener nulls the channel of a link that went down, so a
\* channel on a link that is down is a stale one).
C23_WriteWhileConnected ==
    [][ \A c \in Procs :
          (callers[c].pc # "writing" /\ callers'[c].pc = "writing")
          => /\ isConnected'
             /\ blindsControlCharacteristic' = "char"
             /\ link' = "connected" ]_vars

\* C24: a sendCommandAsync call issues at most one transport write: it has
\* issued one exactly while and after it waits for that write; when the
\* write fails the call is over (the error goes to the caller, the write
\* is not issued again); and a call that ends while it waits for the
\* connection or for discovery has issued none.
C24_OneWritePerCall ==
    /\ [](\A c \in Procs :
            /\ callers[c].writes <= 1
            /\ callers[c].writes = 1 <=> callers[c].pc = "writing")
    /\ [][ \A c \in Procs :
             /\ ( /\ callers[c].pc = "writing"
                  /\ callers'[c] # callers[c]
                  /\ lastAct'.k = "writeDone"
                  /\ ~lastAct'.ok )
                => callers'[c].pc = "idle"
             /\ ( /\ callers[c].pc \in {"awaitConnect", "sleep250",
                                        "awaitDiscover"}
                  /\ callers'[c].pc = "idle" )
                => callers[c].writes = 0 ]_vars

\* a write has just failed and the call that issued it is over, with no
\* call left writing
C24_Witness ==
    /\ lastAct.k = "writeDone"
    /\ ~lastAct.ok
    /\ \A c \in Procs : callers[c].pc = "idle"
    /\ isConnected

\* C25: when the transport has settled a discovery, also with an error or
\* with no matching characteristic, the discovery guard is empty, and a
\* call that reaches discovery afterwards waits for a discovery (a new
\* request, or one that is outstanding) instead of failing at once with
\* the earlier error.
C25_GuardEmptyAfterDiscovery ==
    [][ /\ discoveries' < discoveries => discoveringPromise' = Null
        /\ \A c \in Procs :
             (callers[c].pc = "sleep250" /\ callers'[c].pc # "sleep250")
             => callers'[c].pc = "awaitDiscover" ]_vars

\* C26: a tracking loop arms its timer again only after its
\* updatePositionAsync has succeeded with targetPosition non-null; when
\* targetPosition is null at that check the loop is over; a tick issues one
\* updatePositionAsync; and a loop that is over issues nothing more (a
\* tracker becomes active again only as the new loop of a later
\* setPositionAsync(v, true)).
C26_TrackingSelfTerminates ==
    [][ \A t \in Trackers :
          /\ (callers[t].pc # "timer" /\ callers'[t].pc = "timer")
             => /\ lastAct'.k = "writeDone"
                /\ lastAct'.ok
                /\ IF callers[t].pc = "idle"
                   THEN lastAct'.op = "setPosition"
                   ELSE /\ callers[t].pc = "writing"
                        /\ lastAct'.op = "track"
                        /\ targetPosition' # NoTarget
          /\ ( /\ callers[t].pc = "writing"
               /\ callers'[t] # callers[t]
               /\ targetPosition = NoTarget )
             => callers'[t].pc = "idle"
          /\ (callers[t].pc = "timer" /\ callers'[t].pc # "timer")
             => \/ callers'[t].pc = "idle"
                \/ /\ callers'[t].op = "track"
                   /\ callers'[t].writes <= 1
          /\ callers[t].pc = "idle"
             => callers'[t].pc \in {"idle", "timer"} ]_vars

\* a tracking loop's refresh has succeeded with the target null, and the
\* loop is over
C26_Witness ==
    /\ lastAct.k = "writeDone"
    /\ lastAct.op = "track"
    /\ lastAct.ok
    /\ targetPosition = NoTarget
    /\ \A t \in Trackers : callers[t].pc = "idle"

\* C27: after setPositionAsync(v, true), on a link that stays up, with
\* every position request answered by a sample and a reported position
\* that stops changing, targetPosition eventually becomes null (reached or
\* stalled) and the tracking loop eventually stops polling.
C27_TrackingEnds ==
    /\ (targetPosition # NoTarget) ~> (targetPosition = NoTarget)
    /\ (\E t \in Trackers : callers[t].pc # "idle")
           ~> (\A t \in Trackers : callers[t].pc = "idle")

\* the loop has stopped after a stall: five equal samples short of the
\* target that was commanded
C27_Witness ==
    /\ lastAct.k = "writeDone"
    /\ lastAct.op = "track"
    /\ targetPosition = NoTarget
    /\ \A t \in Trackers : callers[t].pc = "idle"
    /\ Len(lastFewPositions) = BufferCap
    /\ position \notin Targets

\* C28: an inbound frame that is not a position sample (battery, light,
\* acknowledgement, unknown) leaves position, targetPosition, direction and
\* the recent positions unchanged and emits no position, direction or
\* targetPosition event, in every state, also right after setPositionAsync.
C28_OnlySamplesReevaluate ==
    [][ (lastAct'.k = "frame" /\ ~lastAct'.sample)
        => /\ UNCHANGED <<position, targetPosition, direction,
                          lastFewPositions>>
           /\ \A i \in 1..Len(emitted') :
                  emitted'[i][1] \notin {"position", "direction",
                                         "targetPosition"} ]_vars

\* C29: a frame of a known kind that is too short to hold its value field
\* is not applied: position, batteryPercentage and the recent positions
\* are unchanged and no position or batteryPercentage event is emitted.
C29_TruncatedNotApplied ==
    [][ (lastAct'.k = "frame" /\ TooShort(lastAct'.id, lastAct'.len))
        => /\ UNCHANGED <<position, batteryPercentage, lastFewPositions>>
           /\ \A i \in 1..Len(emitted') :
                  emitted'[i][1] \notin {"position", "batteryPercentage"} ]_vars

\* C30: the events of a position sample are emitted in the order of the
\* mutations: first `position` with the position just stored, then, if the
\* direction changed, `direction`, then, if the target changed,
\* `targetPosition`, each at most once and with the value just stored; the
\* events of a step are those of the one frame it handled.
C30_EventOrder ==
    (lastAct.k = "frame" /\ lastAct.sample)
        => /\ Len(emitted) >= 1
           /\ emitted[1] = <<"position", position>>
           /\ position = lastAct.value
           /\ Tail(emitted) \in
                  { <<>>,
                    << <<"direction", direction>> >>,
                    << <<"targetPosition", targetPosition>> >>,
                    << <<"direction", direction>>,
                       <<"targetPosition", targetPosition>> >> }

\* a sample that changed both the direction and the target
C30_Witness ==
    /\ lastAct.k = "frame"
    /\ lastAct.sample
    /\ Len(emitted) = 3
    /\ emitted[2][1] = "direction"
    /\ emitted[3] = <<"targetPosition", NoTarget>>

\* C31: "event implies change" over any sequence of operations and
\* notifications: a step emits at most one `direction` event and its value
\* differs from the one before it (from Stopped for the first), it emits at
\* most one `targetPosition` event and its value differs from the one
\* before it, also when open/close/stop are repeated.
C31_EventImpliesChange ==
    [][LET d == EventsOf("direction", emitted')
           t == EventsOf("targetPosition", emitted')
       IN  /\ Len(d) <= 1
           /\ Len(t) <= 1
           /\ d # <<>> =>
                  d[1][2] # (IF lastEvent.direction = NoEvent
                             THEN Stopped ELSE lastEvent.direction)
           /\ t # <<>> => t[1][2] # lastEvent.targetPosition]_vars

\* C32: emitted events track the stored state: whenever no command is in
\* flight, the stored targetPosition is the payload of the latest
\* `targetPosition` event (null when there was none) and the stored
\* direction is the payload of the latest `direction` event (Stopped when
\* there was none).
C32_EventsTrackState ==
    (\A c \in Procs : callers[c].pc = "idle") =>
        /\ targetPosition = (IF lastEvent.targetPosition = NoEvent
                             THEN NoTarget ELSE lastEvent.targetPosition)
        /\ direction = (IF lastEvent.direction = NoEvent
                        THEN Stopped ELSE lastEvent.direction)

\* C33: at most one position-tracking loop is active per device at any
\* time, also when setPositionAsync(v, true) is called again while an
\* earlier loop is running.
C33_OneTrackingLoop ==
    Cardinality(Trackers \ FreeTrackers) <= 1

\* C34: the host layer reports one position convention: with the device at
\* position p, the value the `position` listener pushes to CurrentPosition
\* and the value the get handler of CurrentPosition returns are both
\* 100 - p.
C34_OneConvention ==
    /\ hap.pushed # NoEvent => hap.pushed = 100 - position
    /\ hap.reported # NoEvent => hap.reported = 100 - position

\* C35: in the threshold variant of the motion heuristic a position sample
\* clears a non-null target if and only if it equals the target, and on
\* every sample after which the ring-buffer variant detects no stall the
\* two variants leave the same target and the same direction.
C35_ThresholdAgrees ==
    [][(/\ lastAct'.k = "frame"
        /\ lastAct'.sample
        /\ targetPosition # NoTarget)
       => /\ ThresholdTarget(targetPosition, position') = NoTarget
                <=> position' = targetPosition
          /\ ~hasStopped(lastFewPositions')
                => /\ targetPosition' =
                          ThresholdTarget(targetPosition, position')
                   /\ direction' =
                          ThresholdDirection(targetPosition, position')]_vars

\* a sample equal to the target has cleared it, with no stall detected
C35_Witness ==
    /\ lastAct.k = "frame"
    /\ lastAct.sample
    /\ ~hasStopped(lastFewPositions)
    /\ position = lastAct.value
    /\ targetPosition = NoTarget
    /\ direction = Stopped
    /\ <<"targetPosition", NoTarget>> \in Range(emitted)

====
